---------------------------- MODULE Spec2Model ----------------------------
(***************************************************************************)
(* CBR-Movie: the similarity primitives (src/src/cbr.rs), the weighted     *)
(* aggregate Movie::similarity (src/src/movie.rs), the command line        *)
(* ranking (src/src/main.rs) and the GUI application state                 *)
(* (src/src/gui.rs).                                                       *)
(*                                                                         *)
(* f32 values are modelled as exact rationals n/d in lowest terms, plus    *)
(* the IEEE-754 special values NaN, +Inf and -Inf.  Rounding of f32 is not *)
(* modelled.  A panic of the program is the value Panic.                   *)
(* Strings are sequences of Unicode scalar values (code points).           *)
(***************************************************************************)
EXTENDS Integers, Sequences, FiniteSets

(***************************************************************************)
(* Bounds of the model.                                                    *)
(***************************************************************************)
\* largest u32 argument handed to similarity_number in SpecFn
MaxNum == 3
\* longest catalogue main reads
MaxMovies == 3
\* longest catalogue the GUI application loads
MaxGuiMovies == 2
\* how many times load_movies is called on one GUI application
MaxLoads == 2
\* longest string handed to similarity_string in SpecFn
MaxStrLen == 2
\* longest collection handed to similarity_id in SpecFn
MaxItems == 2

(***************************************************************************)
(* f32                                                                     *)
(***************************************************************************)
Abs(x) == IF x < 0 THEN -x ELSE x

Sign(x) == IF x < 0 THEN -1 ELSE IF x > 0 THEN 1 ELSE 0

RECURSIVE Gcd(_, _)
Gcd(x, y) == IF y = 0 THEN x ELSE Gcd(y, x % y)

NaN == [k |-> "nan", n |-> 0, d |-> 1]
PosInf == [k |-> "inf", n |-> 1, d |-> 1]
NegInf == [k |-> "inf", n |-> -1, d |-> 1]
Panic == [k |-> "panic", n |-> 0, d |-> 1]

\* the rational n/d, d # 0, in lowest terms with a positive denominator
Rat(n, d) ==
    LET g == Gcd(Abs(n), Abs(d))
        s == IF d < 0 THEN -1 ELSE 1
    IN [k |-> "num", n |-> (s * n) \div g, d |-> (s * d) \div g]

Zero == Rat(0, 1)
One == Rat(1, 1)

IsNum(x) == x.k = "num"
IsNaN(x) == x.k = "nan"
IsInf(x) == x.k = "inf"
IsPanic(x) == x.k = "panic"
\* the sign of a number or an infinity
SignOf(x) == Sign(x.n)

\* f32 addition
FAdd(x, y) ==
    IF IsPanic(x) \/ IsPanic(y) THEN Panic
    ELSE IF IsNaN(x) \/ IsNaN(y) THEN NaN
    ELSE IF IsInf(x) /\ IsInf(y) THEN (IF x.n = y.n THEN x ELSE NaN)
    ELSE IF IsInf(x) THEN x
    ELSE IF IsInf(y) THEN y
    ELSE Rat(x.n * y.d + y.n * x.d, x.d * y.d)

\* f32 negation
FNeg(x) == IF IsNum(x) \/ IsInf(x) THEN [x EXCEPT !.n = -x.n] ELSE x

\* f32 subtraction
FSub(x, y) == FAdd(x, FNeg(y))

\* f32 multiplication
FMul(x, y) ==
    IF IsPanic(x) \/ IsPanic(y) THEN Panic
    ELSE IF IsNaN(x) \/ IsNaN(y) THEN NaN
    ELSE IF IsInf(x) \/ IsInf(y)
         THEN (IF SignOf(x) * SignOf(y) = 0 THEN NaN
               ELSE IF SignOf(x) * SignOf(y) > 0 THEN PosInf ELSE NegInf)
    ELSE Rat(x.n * y.n, x.d * y.d)

\* f32 division: x/0 is NaN for x = 0 and an infinity otherwise
FDiv(x, y) ==
    IF IsPanic(x) \/ IsPanic(y) THEN Panic
    ELSE IF IsNaN(x) \/ IsNaN(y) THEN NaN
    ELSE IF IsInf(x) /\ IsInf(y) THEN NaN
    ELSE IF IsInf(x) THEN (IF SignOf(x) * SignOf(y) >= 0 THEN PosInf ELSE NegInf)
    ELSE IF IsInf(y) THEN Zero
    ELSE IF y.n = 0
         THEN (IF x.n = 0 THEN NaN ELSE IF x.n > 0 THEN PosInf ELSE NegInf)
    ELSE Rat(x.n * y.d, x.d * y.n)

\* f32 abs
FAbs(x) == IF IsNum(x) \/ IsInf(x) THEN [x EXCEPT !.n = Abs(x.n)] ELSE x

\* x < y on f32: false when either side is NaN
FLt(x, y) ==
    /\ ~IsPanic(x) /\ ~IsPanic(y)
    /\ ~IsNaN(x) /\ ~IsNaN(y)
    /\ IF IsInf(x) /\ IsInf(y) THEN x.n < y.n
       ELSE IF IsInf(x) THEN x.n < 0
       ELSE IF IsInf(y) THEN y.n > 0
       ELSE x.n * y.d < y.n * x.d

\* x == y on f32: false when either side is NaN
FEq(x, y) == ~IsPanic(x) /\ ~IsPanic(y) /\ ~IsNaN(x) /\ ~IsNaN(y) /\ x = y

\* x <= y and x >= y on f32
FLe(x, y) == FLt(x, y) \/ FEq(x, y)
FGe(x, y) == FLe(y, x)

\* a finite f32 in [0, 1]
InUnit(x) == IsNum(x) /\ FLe(Zero, x) /\ FLe(x, One)


(***************************************************************************)
(* State                                                                   *)
(***************************************************************************)
VARIABLES
    \* the build profile: TRUE when u32 arithmetic is overflow-checked (debug)
    overflow_checks,
    \* the last call of a pure function: its name, arguments and result
    call,
    \* MovieSimilarityApp (src/src/gui.rs)
    movies, selected_movie_index, similar_movies, min_budget, max_budget,
    search_query, filtered_indices, pending_selection,
    \* how many load_movies calls were made, and whether the app panicked
    loads, gui_panicked,
    \* main (src/src/main.rs): position, catalogue, ranking, loop variables, output
    cli_pc, cli_movies, cli_similarities, cli_count, cli_i, cli_printed

gui_vars == <<movies, selected_movie_index, similar_movies, min_budget, max_budget,
              search_query, filtered_indices, pending_selection, loads, gui_panicked>>
cli_vars == <<cli_pc, cli_movies, cli_similarities, cli_count, cli_i, cli_printed>>
vars == <<overflow_checks, call, gui_vars, cli_vars>>

(***************************************************************************)
(* Strings                                                                 *)
(***************************************************************************)
\* the characters used: 'A', 'a', 'b', and the two-byte U+00E9 (e acute, bytes
\* C3 A9) and U+0101 (a macron, bytes C4 81)
Chars == {65, 97, 98, 233, 257}

\* char::len_utf8
Utf8Len(c) == IF c < 128 THEN 1 ELSE IF c < 2048 THEN 2 ELSE IF c < 65536 THEN 3 ELSE 4

RECURSIVE StrByteLen(_)
\* str::len: the length in bytes of the UTF-8 encoding
StrByteLen(s) == IF s = <<>> THEN 0 ELSE Utf8Len(Head(s)) + StrByteLen(Tail(s))

Min2(x, y) == IF x < y THEN x ELSE y
Max2(x, y) == IF x > y THEN x ELSE y

RECURSIVE Levenshtein(_, _)
\* strsim::levenshtein: the edit distance over the chars of the two strings
Levenshtein(a, b) ==
    IF a = <<>> THEN Len(b)
    ELSE IF b = <<>> THEN Len(a)
    ELSE Min2(Min2(Levenshtein(Tail(a), b) + 1, Levenshtein(a, Tail(b)) + 1),
              Levenshtein(Tail(a), Tail(b)) + (IF Head(a) = Head(b) THEN 0 ELSE 1))

(***************************************************************************)
(* src/src/cbr.rs                                                          *)
(***************************************************************************)
\* the integers up to 2^24 are all f32 values: 24 bits of significand
F32_EXACT == 16777216

RECURSIVE Ulp(_)
\* the distance between the f32 values around the integer n
Ulp(n) == IF n < F32_EXACT THEN 1 ELSE 2 * Ulp(n \div 2)

\* n as f32, for a u32 n: the nearest f32 value, the one with the even
\* significand when n is half way between two
ToF32(n) ==
    LET q == Ulp(n)
        lo == (n \div q) * q
        r == n - lo
    IN IF 2 * r < q THEN lo
       ELSE IF 2 * r > q THEN lo + q
       ELSE IF (lo \div q) % 2 = 0 THEN lo ELSE lo + q

\* similarity_number.  a, b and max - min are converted to f32; the
\* arithmetic on the converted values is exact here.  With max < min the u32
\* subtraction max - min overflows: an overflow-checked build panics;
\* otherwise it wraps to 2^32 - (min - max), and for |a - b| below 2^7 the
\* quotient is below 2^-25, half an ulp of 1.0, so that 1.0 - diff is 1.0 in
\* f32.
SimilarityNumber(a, b, max, min) ==
    IF max < min
    THEN (IF overflow_checks THEN Panic ELSE One)
    ELSE LET diff == FDiv(FAbs(FSub(Rat(ToF32(a), 1), Rat(ToF32(b), 1))),
                          Rat(ToF32(max - min), 1))
         IN FSub(One, diff)

\* similarity_string
SimilarityString(a, b) ==
    IF a = <<>> /\ b = <<>> THEN One
    ELSE LET max_len == Rat(Max2(StrByteLen(a), StrByteLen(b)), 1)
             distance == Rat(Levenshtein(a, b), 1)
         IN FSub(One, FDiv(distance, max_len))

\* HasId::id of a tagged item (Genre, Keyword, Company)
IdOf(item) == item.id

\* similarity_id comparing whole items, names included
SimilarityIdByItem(a, b) ==
    LET a_items == {a[i] : i \in DOMAIN a}
        b_items == {b[i] : i \in DOMAIN b}
        intersection == a_items \cap b_items
        union == a_items \cup b_items
    IN IF union = {} THEN Zero
       ELSE FDiv(Rat(Cardinality(intersection), 1), Rat(Cardinality(union), 1))

\* similarity_id
SimilarityId(a, b) ==
    LET a_ids == {IdOf(a[i]) : i \in DOMAIN a}
        b_ids == {IdOf(b[i]) : i \in DOMAIN b}
        intersection == a_ids \cap b_ids
        union == a_ids \cup b_ids
    IN IF union = {} THEN Zero
       ELSE FDiv(Rat(Cardinality(intersection), 1), Rat(Cardinality(union), 1))

(***************************************************************************)
(* src/src/movie.rs                                                        *)
(***************************************************************************)
BUDGET_WEIGHT == Rat(3, 10)
GENRES_WEIGHT == Rat(1, 1)
HOMEPAGE_WEIGHT == Rat(2, 10)
KEYWORDS_WEIGHT == Rat(2, 1)
PRODUCTION_COMPANIES_WEIGHT == Rat(1, 1)
TITLE_WEIGHT == Rat(25, 10)
\* the sum of the weights without HOMEPAGE_WEIGHT
TotalWeightOfFive ==
    FAdd(FAdd(FAdd(FAdd(BUDGET_WEIGHT, GENRES_WEIGHT), KEYWORDS_WEIGHT),
              PRODUCTION_COMPANIES_WEIGHT), TITLE_WEIGHT)

TOTAL_WEIGHT ==
    FAdd(FAdd(FAdd(FAdd(FAdd(BUDGET_WEIGHT, GENRES_WEIGHT), HOMEPAGE_WEIGHT),
                   KEYWORDS_WEIGHT), PRODUCTION_COMPANIES_WEIGHT), TITLE_WEIGHT)

\* Movie::similarity
Similarity(self, other, minb, maxb) ==
    LET budget_diff == FMul(SimilarityNumber(self.budget, other.budget, maxb, minb),
                            BUDGET_WEIGHT)
        genres_diff == FMul(SimilarityId(self.genres, other.genres), GENRES_WEIGHT)
        homepage_diff == FMul(SimilarityString(self.homepage, other.homepage),
                              HOMEPAGE_WEIGHT)
        keywords_diff == FMul(SimilarityId(self.keywords, other.keywords),
                              KEYWORDS_WEIGHT)
        production_companies_diff ==
            FMul(SimilarityId(self.production_companies, other.production_companies),
                 PRODUCTION_COMPANIES_WEIGHT)
        title_diff == FMul(SimilarityString(self.title, other.title), TITLE_WEIGHT)
        result == FAdd(FAdd(FAdd(FAdd(FAdd(budget_diff, genres_diff), homepage_diff),
                                 keywords_diff), production_companies_diff), title_diff)
    IN FDiv(result, TOTAL_WEIGHT)


(***************************************************************************)
(* Inputs                                                                  *)
(***************************************************************************)
\* Option<usize>::None; indices are 0-based as in the source
None == -1
Some(i) == i
\* v[i] of a Vec
At(v, i) == v[i + 1]

\* a tagged item: Genre, Keyword or Company
Item(id, name) == [id |-> id, name |-> name]

\* the scored fields of a Movie
Movie(id, budget, title, homepage, genres, keywords, production_companies) ==
    [id |-> id, budget |-> budget, title |-> title, homepage |-> homepage,
     genres |-> genres, keywords |-> keywords,
     production_companies |-> production_companies]

\* the rows a CSV file is made of: MA and MB differ in id only, MC has MA's id,
\* MD has no genres, keywords or companies and a two-byte title
MA == Movie(1, 1, <<97>>, <<>>, <<Item(1, "x")>>, <<Item(1, "x")>>, <<Item(1, "x")>>)
MB == Movie(2, 1, <<97>>, <<>>, <<Item(1, "x")>>, <<Item(1, "x")>>, <<Item(1, "x")>>)
MC == Movie(1, 3, <<65, 98>>, <<97>>, <<Item(1, "y"), Item(2, "x")>>, <<>>,
            <<Item(2, "y")>>)
MD == Movie(3, 2, <<233>>, <<>>, <<>>, <<>>, <<>>)
Rows == {MA, MB, MC, MD}

\* the sequences over S of length at most n
SeqUpTo(S, n) == UNION {[1..m -> S] : m \in 0..n}

\* the records of the end-to-end scenario: "Alpha" and "Zzz", budgets 100 and
\* 900, every other scored attribute empty
ScenarioA == Movie(1, 100, <<65, 108, 112, 104, 97>>, <<>>, <<>>, <<>>, <<>>)
ScenarioB == Movie(2, 100, <<65, 108, 112, 104, 97>>, <<>>, <<>>, <<>>, <<>>)
ScenarioC == Movie(3, 900, <<90, 122, 122>>, <<>>, <<>>, <<>>, <<>>)
ScenarioCatalogue == <<ScenarioA, ScenarioB, ScenarioC>>

\* a catalogue longer than the CLI prints: the reference MA, five rows equal
\* to it under another id, and last MC, which has the id of MA
SharedIdCatalogue == <<MA, MB, MB, MB, MB, MB, MC>>

\* the catalogues main reads
Catalogues == SeqUpTo(Rows, MaxMovies) \cup {ScenarioCatalogue, SharedIdCatalogue}
\* the catalogues the GUI application loads, every row at most once: MA and MB
\* tie, MC alone has a 'b'
GuiCatalogues ==
    {c \in SeqUpTo({MA, MB, MC}, MaxGuiMovies) : \A i, j \in DOMAIN c : c[i] = c[j] => i = j}
\* what the user types into the search field: nothing, "A" or "b"
Queries == {<<>>, <<65>>, <<98>>}
\* the identifiers and the display names of tagged items
ItemIds == {1, 2}
ItemNames == {"x", "y"}
Strings == SeqUpTo(Chars, MaxStrLen)
Collections == SeqUpTo({Item(i, nm) : i \in ItemIds, nm \in ItemNames}, MaxItems)
Budgets == {r.budget : r \in Rows}
\* where the numbers given to similarity_number start: at 0, and at 2^24 where
\* the odd integers are not f32 values
NumBases == {0, F32_EXACT}

(***************************************************************************)
(* Initial state                                                           *)
(***************************************************************************)
\* a call of fn with args that has not returned yet
Pending(fn, args) == [fn |-> fn, args |-> args, done |-> FALSE, ret |-> Zero]
\* the call c returned ret
Returned(c, ret) == [c EXCEPT !.done = TRUE, !.ret = ret]

NoCall == Pending("none", <<>>)

\* MovieSimilarityApp::default()
GuiDefault ==
    /\ movies = <<>>
    /\ selected_movie_index = None
    /\ similar_movies = <<>>
    /\ min_budget = 0
    /\ max_budget = 0
    /\ search_query = <<>>
    /\ filtered_indices = <<>>
    /\ pending_selection = None
    /\ loads = 0
    /\ gui_panicked = FALSE

\* main before it runs
CliDefault ==
    /\ cli_pc = "start"
    /\ cli_movies = <<>>
    /\ cli_similarities = <<>>
    /\ cli_count = 0
    /\ cli_i = 0
    /\ cli_printed = <<>>

(***************************************************************************)
(* SpecFn: the pure functions, each applied to every input of the bounded  *)
(* sets                                                                    *)
(***************************************************************************)
InitFn ==
    /\ overflow_checks \in BOOLEAN
    /\ call \in
          {Pending("similarity_number", <<base + a, base + b, base + max, base + min>>) :
              a \in 0..MaxNum, b \in 0..MaxNum, max \in 0..MaxNum, min \in 0..MaxNum,
              base \in NumBases}
          \cup {Pending("similarity_string", <<a, b>>) : a \in Strings, b \in Strings}
          \cup {Pending("similarity_id", <<a, b>>) : a \in Collections, b \in Collections}
          \cup {Pending("similarity", <<self, other, minb, maxb>>) :
                  self \in Rows, other \in Rows, minb \in Budgets, maxb \in Budgets}
    /\ GuiDefault
    /\ CliDefault

CallSimilarityNumber ==
    /\ call.fn = "similarity_number" /\ ~call.done
    /\ call' = Returned(call, SimilarityNumber(call.args[1], call.args[2],
                                               call.args[3], call.args[4]))
    /\ UNCHANGED <<overflow_checks, gui_vars, cli_vars>>

CallSimilarityString ==
    /\ call.fn = "similarity_string" /\ ~call.done
    /\ call' = Returned(call, SimilarityString(call.args[1], call.args[2]))
    /\ UNCHANGED <<overflow_checks, gui_vars, cli_vars>>

CallSimilarityId ==
    /\ call.fn = "similarity_id" /\ ~call.done
    /\ call' = Returned(call, SimilarityId(call.args[1], call.args[2]))
    /\ UNCHANGED <<overflow_checks, gui_vars, cli_vars>>

CallSimilarity ==
    /\ call.fn = "similarity" /\ ~call.done
    /\ call' = Returned(call, Similarity(call.args[1], call.args[2],
                                         call.args[3], call.args[4]))
    /\ UNCHANGED <<overflow_checks, gui_vars, cli_vars>>

NextFn ==
    \/ CallSimilarityNumber
    \/ CallSimilarityString
    \/ CallSimilarityId
    \/ CallSimilarity

SpecFn == InitFn /\ [][NextFn]_vars


(***************************************************************************)
(* Ranking: src/src/main.rs lines 22-50, src/src/gui.rs lines 86-140       *)
(***************************************************************************)
\* how many similar movies the GUI shows, and how many main prints
TOP_N == 10
CLI_TOP == 5

RECURSIVE MinOf(_)
MinOf(S) == LET x == CHOOSE y \in S : TRUE
            IN IF S = {x} THEN x ELSE Min2(x, MinOf(S \ {x}))

RECURSIVE MaxOf(_)
MaxOf(S) == LET x == CHOOSE y \in S : TRUE
            IN IF S = {x} THEN x ELSE Max2(x, MaxOf(S \ {x}))

\* movies.iter().map(|movie| movie.budget).min().unwrap_or(0)
MinBudget(ms) == IF ms = <<>> THEN 0 ELSE MinOf({ms[i].budget : i \in DOMAIN ms})

\* movies.iter().map(|movie| movie.budget).max().unwrap_or(0)
MaxBudget(ms) == IF ms = <<>> THEN 0 ELSE MaxOf({ms[i].budget : i \in DOMAIN ms})

\* one (index, score) entry of a ranking
Entry(idx, score) == [idx |-> idx, score |-> score]

\* the scores of the movies of ms that are not the reference itself
ScoresOfOthers(ms, reference, minb, maxb) ==
    LET NotReference(e) == ms[e.idx + 1] # reference
    IN SelectSeq([i \in DOMAIN ms |->
                     Entry(i - 1, Similarity(ms[i], reference, minb, maxb))],
                 NotReference)

\* the scores of every movie of ms against the reference, in catalogue order
Scores(ms, reference, minb, maxb) ==
    [i \in DOMAIN ms |-> Entry(i - 1, Similarity(ms[i], reference, minb, maxb))]

\* f32::partial_cmp
PartialCmp(x, y) ==
    IF IsNaN(x) \/ IsNaN(y) THEN "None"
    ELSE IF FLt(x, y) THEN "Less"
    ELSE IF FLt(y, x) THEN "Greater"
    ELSE "Equal"

\* the comparator |a, b| b.1.partial_cmp(&a.1).unwrap_or(Ordering::Equal)
CompareDesc(a, b) ==
    LET c == PartialCmp(b.score, a.score)
    IN IF c = "None" THEN "Equal" ELSE c

RECURSIVE InsertSorted(_, _)
\* e placed behind every entry of the sorted v that it is not Less than
InsertSorted(v, e) ==
    IF v = <<>> THEN <<e>>
    ELSE IF CompareDesc(e, Head(v)) = "Less" THEN <<e>> \o v
    ELSE <<Head(v)>> \o InsertSorted(Tail(v), e)

RECURSIVE SortBy(_)
\* slice::sort_by with CompareDesc: a stable sort.  The scores of one ranking
\* are all NaN or all numbers, so that CompareDesc is a total preorder on them
\* and the stable order is unique.
SortBy(v) ==
    IF v = <<>> THEN <<>>
    ELSE InsertSorted(SortBy(SubSeq(v, 1, Len(v) - 1)), v[Len(v)])

(***************************************************************************)
(* src/src/main.rs                                                         *)
(***************************************************************************)
\* main, lines 13-35: the CSV file is read, the bounds are computed, movies[0]
\* is the reference (a panic on an empty catalogue), every movie is scored
\* and the scores are sorted
CliStart ==
    /\ cli_pc = "start"
    /\ \E cat \in Catalogues :
          /\ cli_movies' = cat
          /\ IF cat = <<>>
             THEN /\ cli_pc' = "panicked"
                  /\ UNCHANGED cli_similarities
             ELSE /\ cli_pc' = "loop"
                  /\ cli_similarities' =
                        SortBy(Scores(cat, At(cat, 0), MinBudget(cat), MaxBudget(cat)))
    /\ UNCHANGED <<cli_count, cli_i, cli_printed>>
    /\ UNCHANGED <<overflow_checks, call, gui_vars>>

\* main, lines 13-20: the file cannot be opened or a row cannot be parsed
CliLoadError ==
    /\ cli_pc = "start"
    /\ cli_pc' = "error"
    /\ UNCHANGED <<cli_movies, cli_similarities, cli_count, cli_i, cli_printed>>
    /\ UNCHANGED <<overflow_checks, call, gui_vars>>

\* the printing loop with the test of the GUI loop: the entry at the
\* reference's index is skipped, whatever the ids
CliLoopByIndex ==
    /\ cli_pc = "loop"
    /\ cli_count < CLI_TOP /\ cli_i < Len(cli_similarities)
    /\ LET e == At(cli_similarities, cli_i)
       IN IF e.idx # 0
          THEN /\ cli_printed' = Append(cli_printed, e)
               /\ cli_count' = cli_count + 1
          ELSE UNCHANGED <<cli_printed, cli_count>>
    /\ cli_i' = cli_i + 1
    /\ UNCHANGED <<cli_pc, cli_movies, cli_similarities>>
    /\ UNCHANGED <<overflow_checks, call, gui_vars>>

\* main, lines 41-50: one iteration of the printing loop
CliLoop ==
    /\ cli_pc = "loop"
    /\ cli_count < CLI_TOP /\ cli_i < Len(cli_similarities)
    /\ LET e == At(cli_similarities, cli_i)
           movie == At(cli_movies, e.idx)
           reference_movie == At(cli_movies, 0)
       IN IF movie.id # reference_movie.id
          THEN /\ cli_printed' = Append(cli_printed, e)
               /\ cli_count' = cli_count + 1
          ELSE UNCHANGED <<cli_printed, cli_count>>
    /\ cli_i' = cli_i + 1
    /\ UNCHANGED <<cli_pc, cli_movies, cli_similarities>>
    /\ UNCHANGED <<overflow_checks, call, gui_vars>>

\* main, lines 41 and 52: the loop ends and main returns Ok(())
CliExit ==
    /\ cli_pc = "loop"
    /\ ~(cli_count < CLI_TOP /\ cli_i < Len(cli_similarities))
    /\ cli_pc' = "done"
    /\ UNCHANGED <<cli_movies, cli_similarities, cli_count, cli_i, cli_printed>>
    /\ UNCHANGED <<overflow_checks, call, gui_vars>>

InitCli ==
    /\ overflow_checks \in BOOLEAN
    /\ call = NoCall
    /\ GuiDefault
    /\ CliDefault

NextCli ==
    \/ CliStart
    \/ CliLoadError
    \/ CliLoop
    \/ CliExit

SpecCli == InitCli /\ [][NextCli]_vars


(***************************************************************************)
(* src/src/gui.rs                                                          *)
(***************************************************************************)
\* the application as one value
App ==
    [movies |-> movies, selected_movie_index |-> selected_movie_index,
     similar_movies |-> similar_movies, min_budget |-> min_budget,
     max_budget |-> max_budget, search_query |-> search_query,
     filtered_indices |-> filtered_indices, pending_selection |-> pending_selection,
     panicked |-> gui_panicked]

\* the application becomes a
SetApp(a) ==
    /\ movies' = a.movies
    /\ selected_movie_index' = a.selected_movie_index
    /\ similar_movies' = a.similar_movies
    /\ min_budget' = a.min_budget
    /\ max_budget' = a.max_budget
    /\ search_query' = a.search_query
    /\ filtered_indices' = a.filtered_indices
    /\ pending_selection' = a.pending_selection
    /\ gui_panicked' = a.panicked

\* char::to_lowercase on the Latin-1 range
ToLowerChar(c) ==
    IF (c >= 65 /\ c <= 90) \/ (c >= 192 /\ c <= 222 /\ c # 215) THEN c + 32 ELSE c

\* str::to_lowercase
ToLowercase(s) == [i \in DOMAIN s |-> ToLowerChar(s[i])]

\* str::contains
Contains(s, q) ==
    \E off \in 0..(Len(s) - Len(q)) : \A i \in 1..Len(q) : s[off + i] = q[i]

\* 0..n collected into a Vec
Range(n) == [i \in 1..n |-> i - 1]

\* load_movies without lines 87-100: the catalogue is replaced and the bounds
\* of the catalogue before it are kept
LoadMoviesKeepBounds(a, cat) ==
    [a EXCEPT !.movies = cat,
              !.filtered_indices = Range(Len(cat))]

\* MovieSimilarityApp::load_movies, a file that opens and parses to cat
LoadMoviesOk(a, cat) ==
    [a EXCEPT !.movies = cat,
              !.min_budget = MinBudget(cat),
              !.max_budget = MaxBudget(cat),
              !.filtered_indices = Range(Len(cat))]

\* calculate_similarities with the new scores added to similar_movies, not
\* put in its place
CalculateSimilaritiesExtending(a) ==
    IF a.selected_movie_index = None THEN a
    ELSE IF a.selected_movie_index >= Len(a.movies) THEN [a EXCEPT !.panicked = TRUE]
    ELSE [a EXCEPT !.similar_movies =
             SortBy(a.similar_movies \o
                    Scores(a.movies, At(a.movies, a.selected_movie_index),
                           a.min_budget, a.max_budget))]

\* MovieSimilarityApp::calculate_similarities
CalculateSimilarities(a) ==
    IF a.selected_movie_index = None THEN a
    ELSE IF a.selected_movie_index >= Len(a.movies) THEN [a EXCEPT !.panicked = TRUE]
    ELSE [a EXCEPT !.similar_movies =
             SortBy(Scores(a.movies, At(a.movies, a.selected_movie_index),
                           a.min_budget, a.max_budget))]

\* filter_movies with the title compared as it is written: only the query is
\* lower-cased
FilterMoviesTitleAsWritten(a) ==
    LET query == ToLowercase(a.search_query)
        Matches(idx) == Contains(At(a.movies, idx).title, query)
    IN [a EXCEPT !.filtered_indices = SelectSeq(Range(Len(a.movies)), Matches)]

\* MovieSimilarityApp::filter_movies
FilterMovies(a) ==
    LET query == ToLowercase(a.search_query)
        Matches(idx) == Contains(ToLowercase(At(a.movies, idx).title), query)
    IN [a EXCEPT !.filtered_indices = SelectSeq(Range(Len(a.movies)), Matches)]

\* MovieSimilarityApp::process_pending_selection
ProcessPendingSelection(a) ==
    IF a.pending_selection = None THEN a
    ELSE LET idx == a.pending_selection
             a1 == [a EXCEPT !.pending_selection = None,
                             !.selected_movie_index = Some(idx)]
             a2 == CalculateSimilarities(a1)
         IN IF a2.panicked THEN a2
            ELSE FilterMovies([a2 EXCEPT !.search_query = At(a.movies, idx).title])

RECURSIVE SimilarLoop(_, _, _, _, _)
\* update, lines 479-553: the entries the similar-movies loop draws, in order
SimilarLoop(similar_indices, selected_idx, top, index, shown) ==
    IF Len(shown) < top /\ index < Len(similar_indices)
    THEN LET e == At(similar_indices, index)
         IN IF e.idx = selected_idx
            THEN SimilarLoop(similar_indices, selected_idx, top, index + 1, shown)
            ELSE SimilarLoop(similar_indices, selected_idx, top, index + 1,
                             Append(shown, e))
    ELSE shown

\* the similar movies drawn for the application a
Shown(a) == SimilarLoop(a.similar_movies, a.selected_movie_index, TOP_N, 0, <<>>)

\* the last element of a set of positions, 0 for none
LastOf(S) == IF S = {} THEN 0 ELSE MaxOf(S)

\* update, lines 260-575: the frame is drawn.  edit is the text typed into the
\* search field, list_clicks the clicked cards of the movie list (positions in
\* filtered_indices) and similar_clicks the clicked cards of the similar list.
Draw(a, edit, list_clicks, similar_clicks) ==
    IF a.movies = <<>> THEN a
    ELSE LET a1 == IF edit.changed
                   THEN FilterMovies([a EXCEPT !.search_query = edit.text])
                   ELSE a
             list_ok == \A p \in DOMAIN a1.filtered_indices :
                           a1.filtered_indices[p] < Len(a1.movies)
             a2 == IF list_clicks # {} /\ list_ok
                   THEN [a1 EXCEPT !.pending_selection =
                                      Some(a1.filtered_indices[LastOf(list_clicks)])]
                   ELSE a1
             shown == Shown(a2)
             similar_ok == \A p \in DOMAIN shown : shown[p].idx < Len(a2.movies)
         IN IF ~list_ok THEN [a1 EXCEPT !.panicked = TRUE]
            ELSE IF a2.selected_movie_index = None THEN a2
            ELSE IF a2.selected_movie_index >= Len(a2.movies) \/ ~similar_ok
                 THEN [a2 EXCEPT !.panicked = TRUE]
            ELSE IF similar_clicks # {}
                 THEN [a2 EXCEPT !.pending_selection =
                                     Some(shown[LastOf(similar_clicks)].idx)]
            ELSE a2

\* load_movies returns Ok: the catalogue and the bounds are replaced
LoadMovies ==
    /\ ~gui_panicked
    /\ loads < MaxLoads
    /\ \E cat \in GuiCatalogues : \E a \in {LoadMoviesOk(App, cat)} : SetApp(a)
    /\ loads' = loads + 1
    /\ UNCHANGED <<overflow_checks, call, cli_vars>>

\* load_movies returns Err: File::open or the deserialization failed, and
\* nothing was assigned
LoadMoviesErr ==
    /\ ~gui_panicked
    /\ loads < MaxLoads
    /\ loads' = loads + 1
    /\ UNCHANGED <<movies, selected_movie_index, similar_movies, min_budget, max_budget,
                   search_query, filtered_indices, pending_selection, gui_panicked>>
    /\ UNCHANGED <<overflow_checks, call, cli_vars>>

\* eframe::App::update: one frame.  The pending selection is processed, then
\* the frame is drawn with what the user does in it.
Update ==
    /\ ~gui_panicked
    /\ \E a \in {ProcessPendingSelection(App)} :
          IF a.panicked THEN SetApp(a)
          ELSE \E edit \in {[changed |-> FALSE, text |-> a.search_query]}
                           \cup {[changed |-> TRUE, text |-> q] :
                                    q \in Queries \ {a.search_query}} :
               \E a1 \in {IF edit.changed /\ a.movies # <<>>
                          THEN FilterMovies([a EXCEPT !.search_query = edit.text])
                          ELSE a} :
               \E list_clicks \in SUBSET (DOMAIN a1.filtered_indices),
                  similar_clicks \in SUBSET (DOMAIN Shown(a1)) :
               \E drawn \in {Draw(a, edit, list_clicks, similar_clicks)} :
                  SetApp(drawn)
    /\ UNCHANGED loads
    /\ UNCHANGED <<overflow_checks, call, cli_vars>>

Init ==
    /\ overflow_checks \in BOOLEAN
    /\ call = NoCall
    /\ GuiDefault
    /\ CliDefault

Next ==
    \/ LoadMovies
    \/ LoadMoviesErr
    \/ Update

Spec == Init /\ [][Next]_vars


(***************************************************************************)
(* Properties                                                              *)
(***************************************************************************)
\* the call of fn that returned
Done(fn) == call.fn = fn /\ call.done

\* the UTF-8 encoding of a string of characters below U+0800
Utf8(s) ==
    LET Enc(c) == IF c < 128 THEN <<c>> ELSE <<192 + (c \div 64), 128 + (c % 64)>>
        F[i \in 0..Len(s)] == IF i = 0 THEN <<>> ELSE F[i - 1] \o Enc(s[i])
    IN F[Len(s)]

\* 1 - lev(x, y) / max(len(x), len(y)) with both counted in the elements of x, y
UnitRatio(x, y) ==
    FSub(One, FDiv(Rat(Levenshtein(x, y), 1), Rat(Max2(Len(x), Len(y)), 1)))

\* the entries of a ranking other than the reference's, in rank order
NonReference(ranking, reference_idx) ==
    LET Other(e) == e.idx # reference_idx
    IN SelectSeq(ranking, Other)

\* the first n elements of v, all of them when there are fewer
Take(v, n) == SubSeq(v, 1, Min2(n, Len(v)))

\* C1: a record compared with itself, under bounds of a catalogue that
\* contains it, has similarity exactly 1.0
C1_SelfSimilarityIsOne ==
    (/\ Done("similarity")
     /\ call.args[1] = call.args[2]
     /\ call.args[3] <= call.args[1].budget
     /\ call.args[1].budget <= call.args[4])
    => FEq(call.ret, One)

\* C2: every score of a ranking is a number in [0, 1], never NaN or infinite
C2_ScoresInUnit ==
    \A p \in DOMAIN cli_similarities : InUnit(cli_similarities[p].score)

\* C3: similarity_number with max = min returns 1.0: no panic, NaN or infinity
C3_DegenerateRangeIsOne ==
    (Done("similarity_number") /\ call.args[3] = call.args[4])
    => FEq(call.ret, One)

\* C4: what main prints is the ranking without the reference's position, cut
\* to the first CLI_TOP entries: no other record is left out
C4_OnlyReferenceExcluded ==
    cli_pc = "done"
    => cli_printed = Take(NonReference(cli_similarities, 0), CLI_TOP)

\* C5: a ranking is in descending order of score, entries of equal score in
\* ascending order of catalogue index
C5_SortedDescendingStable ==
    \A p, q \in DOMAIN cli_similarities :
        p < q =>
            /\ FGe(cli_similarities[p].score, cli_similarities[q].score)
            /\ FEq(cli_similarities[p].score, cli_similarities[q].score)
                  => cli_similarities[p].idx < cli_similarities[q].idx

\* C6: for a catalogue of N >= 1 records main prints exactly min(K, N - 1)
\* entries
C6_YieldsMinKNMinus1 ==
    cli_pc = "done"
    => Len(cli_printed) = Min2(CLI_TOP, Len(cli_movies) - 1)

\* C7: a.similarity(b, min, max) == b.similarity(a, min, max)
C7_SimilaritySymmetric ==
    Done("similarity")
    => FEq(call.ret,
           Similarity(call.args[2], call.args[1], call.args[3], call.args[4]))

\* C8: similarity_number returns a value in [0, 1] for every a, b, max, min,
\* and never panics
C8_NumberInUnit ==
    Done("similarity_number") => InUnit(call.ret)

\* C9: similarity_string of two strings that are not both empty is
\* 1 - lev / max(len, len) with lev and len in one unit, chars or bytes
C9_OneUnit ==
    (Done("similarity_string") /\ ~(call.args[1] = <<>> /\ call.args[2] = <<>>))
    => \/ call.ret = UnitRatio(call.args[1], call.args[2])
       \/ call.ret = UnitRatio(Utf8(call.args[1]), Utf8(call.args[2]))

\* C10: similarity_id is the Jaccard index of the two sets of distinct
\* identifiers, 0.0 for two empty collections; names play no part; it is
\* symmetric, 1.0 for a non-empty collection and itself, 0.0 for disjoint ones
C10_Jaccard ==
    Done("similarity_id") =>
        LET a == call.args[1]
            b == call.args[2]
            A == {a[i].id : i \in DOMAIN a}
            B == {b[i].id : i \in DOMAIN b}
            common == Cardinality({x \in ItemIds : x \in A /\ x \in B})
            either == Cardinality(A) + Cardinality(B) - common
            Unnamed(c) == [i \in DOMAIN c |-> Item(c[i].id, "")]
        IN /\ call.ret = IF either = 0 THEN Zero ELSE Rat(common, either)
           /\ (a = <<>> /\ b = <<>>) => FEq(call.ret, Zero)
           /\ FEq(call.ret, SimilarityId(b, a))
           /\ FEq(call.ret, SimilarityId(Unnamed(a), Unnamed(b)))
           /\ (a # <<>> /\ A = B) => FEq(call.ret, One)
           /\ (A \cap B = {}) => FEq(call.ret, Zero)

\* C10 witness: a collection with a repeated identifier under two names, and
\* one of two identifiers in common
C10_Witness ==
    /\ Done("similarity_id")
    /\ call.args[1] = <<Item(1, "x"), Item(1, "y")>>
    /\ call.args[2] = <<Item(2, "x"), Item(1, "y")>>
    /\ call.ret = Rat(1, 2)

\* C11: a query whose reference index is not a position of the catalogue, an
\* empty catalogue in particular, ends in an error the caller handles: the
\* process never panics
C11_NoCrash ==
    cli_pc # "panicked"

\* C12: the stored bounds are the minimum and the maximum budget of the
\* catalogue that is loaded, (0, 0) for an empty one, after every step: a
\* load that succeeds replaces the catalogue and both bounds together, a load
\* that fails changes none of the three, and nothing else assigns them
C12_BoundsFollowCatalogue ==
    [][/\ min_budget' = MinBudget(movies')
       /\ max_budget' = MaxBudget(movies')
       /\ movies' = <<>> => (min_budget' = 0 /\ max_budget' = 0)
       /\ \A i \in DOMAIN movies' :
             min_budget' <= movies'[i].budget /\ movies'[i].budget <= max_budget'
       /\ LoadMoviesErr => UNCHANGED <<movies, min_budget, max_budget>>
       /\ loads' = loads => UNCHANGED <<movies, min_budget, max_budget>>]_vars

\* C12 witness: a second load replaced a catalogue in which a movie had been
\* selected by one whose bounds are (3, 3)
C12_Witness ==
    /\ loads = 2
    /\ similar_movies # <<>>
    /\ Len(similar_movies) # Len(movies)
    /\ movies = <<MC>>
    /\ min_budget = 3 /\ max_budget = 3

\* C13: the ranking of a catalogue of N records has exactly one entry for
\* every record, the reference included: N entries whose indices are a
\* permutation of 0..N-1
C13_OneEntryPerRecord ==
    cli_pc \in {"loop", "done"}
    => /\ Len(cli_similarities) = Len(cli_movies)
       /\ {cli_similarities[p].idx : p \in DOMAIN cli_similarities}
             = 0..(Len(cli_movies) - 1)
       /\ \E p \in DOMAIN cli_similarities : cli_similarities[p].idx = 0

\* C13 witness: three records ranked in an order that is not the catalogue's
C13_Witness ==
    /\ cli_pc = "done"
    /\ Len(cli_movies) = 3
    /\ Len(cli_similarities) = 3
    /\ cli_similarities[1].idx = 0
    /\ cli_similarities[2].idx = 2
    /\ cli_similarities[3].idx = 1

\* C14: for the catalogue A(100, "Alpha"), B(100, "Alpha"), C(900, "Zzz"),
\* bounds 100 and 900, the first two entries printed for the reference A are
\* B then C, B with a score of exactly 1.0 and C with a smaller one
C14_Scenario ==
    (cli_pc = "done" /\ cli_movies = ScenarioCatalogue)
    => /\ Len(cli_printed) >= 2
       /\ cli_printed[1].idx = 1
       /\ cli_printed[2].idx = 2
       /\ FEq(cli_printed[1].score, One)
       /\ FLt(cli_printed[2].score, cli_printed[1].score)

\* C15: the aggregate is the sum of the six primitive results, each times its
\* weight (budget by similarity_number, title and homepage by
\* similarity_string, genres, keywords and production_companies by
\* similarity_id), divided by TOTAL_WEIGHT; no weight is negative, and
\* TOTAL_WEIGHT is the sum of the six weights and is positive
C15_WeightedMean ==
    Done("similarity") =>
        LET self == call.args[1]
            other == call.args[2]
            weights == <<BUDGET_WEIGHT, TITLE_WEIGHT, HOMEPAGE_WEIGHT, GENRES_WEIGHT,
                         KEYWORDS_WEIGHT, PRODUCTION_COMPANIES_WEIGHT>>
            results ==
                <<SimilarityNumber(self.budget, other.budget, call.args[4], call.args[3]),
                  SimilarityString(self.title, other.title),
                  SimilarityString(self.homepage, other.homepage),
                  SimilarityId(self.genres, other.genres),
                  SimilarityId(self.keywords, other.keywords),
                  SimilarityId(self.production_companies, other.production_companies)>>
            Weighted[i \in 0..6] ==
                IF i = 0 THEN Zero ELSE FAdd(Weighted[i - 1], FMul(results[i], weights[i]))
            Weight[i \in 0..6] == IF i = 0 THEN Zero ELSE FAdd(Weight[i - 1], weights[i])
        IN /\ \A i \in 1..6 : FGe(weights[i], Zero)
           /\ FEq(TOTAL_WEIGHT, Weight[6])
           /\ FLt(Zero, TOTAL_WEIGHT)
           /\ call.ret = FDiv(Weighted[6], Weight[6])

\* C15 witness: MC against itself under the bounds 1 and 3: every primitive
\* is 1.0 but that of the empty keywords, and 5.0 of the 7.0 are scored
C15_Witness ==
    /\ Done("similarity")
    /\ call.args = <<MC, MC, 1, 3>>
    /\ call.ret = Rat(5, 7)

\* C16: for max > min and a, b in [min, max], similarity_number(a, b, max, min)
\* is 1 - |a - b| / (max - min): 1.0 when a = b, 0.0 for the pair (min, max),
\* and smaller for every pair of the range that is further apart
C16_LinearInDistance ==
    (/\ Done("similarity_number")
     /\ call.args[3] > call.args[4]
     /\ \A i \in 1..2 : call.args[4] <= call.args[i] /\ call.args[i] <= call.args[3])
    => LET a == call.args[1]
           b == call.args[2]
           max == call.args[3]
           min == call.args[4]
       IN /\ call.ret = FSub(One, FDiv(Rat(Abs(a - b), 1), Rat(max - min, 1)))
          /\ a = b => FEq(call.ret, One)
          /\ {a, b} = {min, max} => FEq(call.ret, Zero)
          /\ \A a2 \in min..max, b2 \in min..max :
                Abs(a2 - b2) > Abs(a - b)
                => FLt(SimilarityNumber(a2, b2, max, min), call.ret)

\* C17: similarity_string is 1.0 for two empty strings and for a string and
\* itself, is symmetric, is in [0, 1] for every pair, and is 0.0 when exactly
\* one of the two strings is empty
C17_StringProperties ==
    Done("similarity_string") =>
        LET a == call.args[1]
            b == call.args[2]
        IN /\ a = b => FEq(call.ret, One)
           /\ FEq(call.ret, SimilarityString(b, a))
           /\ InUnit(call.ret)
           /\ (a = <<>>) # (b = <<>>) => FEq(call.ret, Zero)

C19_IndicesInCatalogue ==
    /\ selected_movie_index # None => selected_movie_index < Len(movies)
    /\ pending_selection # None => pending_selection < Len(movies)
    /\ \A p \in DOMAIN similar_movies : similar_movies[p].idx < Len(movies)
    /\ \A p \in DOMAIN filtered_indices : filtered_indices[p] < Len(movies)

\* C20: in every frame the click that the frame before recorded is applied
\* first, by process_pending_selection: the clicked index is selected, the
\* ranking is that of the clicked movie, search_query is its title,
\* filtered_indices is refiltered and pending_selection is empty before
\* anything is drawn; the clicks of the frame itself only leave the index of
\* the last card clicked in pending_selection; with nothing pending
\* process_pending_selection changes nothing
C20_ClickAppliedNextFrame ==
    [][(loads' = loads) =>
        LET a == ProcessPendingSelection(App)
            idx == pending_selection
            unedited == [changed |-> FALSE, text |-> a.search_query]
        IN /\ ~gui_panicked'
           /\ idx = None =>
                 /\ a = App
                 /\ selected_movie_index' = selected_movie_index
                 /\ similar_movies' = similar_movies
           /\ idx # None =>
                 /\ selected_movie_index' = idx
                 /\ similar_movies' =
                       SortBy(Scores(movies, At(movies, idx), min_budget, max_budget))
                 /\ a.selected_movie_index = idx
                 /\ a.similar_movies = similar_movies'
                 /\ a.search_query = At(movies, idx).title
                 /\ a.filtered_indices
                       = FilterMovies([App EXCEPT !.search_query = At(movies, idx).title])
                            .filtered_indices
                 /\ a.pending_selection = None
           /\ \A list_clicks \in SUBSET (DOMAIN a.filtered_indices),
                 similar_clicks \in SUBSET (DOMAIN Shown(a)) :
                 Draw(a, unedited, list_clicks, similar_clicks).pending_selection
                    = IF similar_clicks # {}
                      THEN Shown(a)[MaxOf(similar_clicks)].idx
                      ELSE IF list_clicks # {}
                      THEN a.filtered_indices[MaxOf(list_clicks)]
                      ELSE None]_vars

\* the ids of the catalogue ms are pairwise distinct
UniqueIds(ms) == \A i, j \in DOMAIN ms : ms[i].id = ms[j].id => i = j

\* what the GUI loop draws for the ranking main computed, the reference at
\* index 0 selected, cut to the CLI_TOP entries main prints
GuiLoopOfCli == SimilarLoop(cli_similarities, 0, CLI_TOP, 0, <<>>)

\* C21 as stated: the CLI loop and the GUI loop yield the same sequence when
\* the ids of the catalogue are unique, and different sequences when another
\* record has the id of the reference
C21_SameIffUniqueIds ==
    cli_pc = "done"
    => /\ UniqueIds(cli_movies) => cli_printed = GuiLoopOfCli
       /\ (\E i \in 2..Len(cli_movies) : cli_movies[i].id = cli_movies[1].id)
             => cli_printed # GuiLoopOfCli

\* C21 amended: the CLI loop and the GUI loop yield the same sequence when the
\* ids of the catalogue are unique; the two sequences differ exactly when a
\* record with the id of the reference is among the entries the GUI loop draws
C21_DifferIffSharedIdDrawn ==
    cli_pc = "done"
    => /\ UniqueIds(cli_movies) => cli_printed = GuiLoopOfCli
       /\ (cli_printed # GuiLoopOfCli)
             <=> \E p \in DOMAIN GuiLoopOfCli :
                    At(cli_movies, GuiLoopOfCli[p].idx).id = At(cli_movies, 0).id

\* C21 witness: MC has the id of the reference MA and ranks behind the five
\* entries that both loops yield
C21_Witness ==
    /\ cli_pc = "done"
    /\ cli_movies = SharedIdCatalogue
    /\ Len(cli_printed) = CLI_TOP
    /\ cli_printed = GuiLoopOfCli
    /\ cli_similarities[Len(cli_similarities)].idx = 6

\* the string q occurs in the string s
Occurs(q, s) ==
    \/ q = <<>>
    \/ \E i \in 1..Len(s), j \in 1..Len(s) : SubSeq(s, i, j) = q

\* v is the ascending list of the indices of the catalogue ms whose
\* lower-cased title contains the lower-cased query
IsFilterOf(v, ms, query) ==
    /\ \A p, q \in DOMAIN v : p < q => v[p] < v[q]
    /\ \A idx \in 0..(Len(ms) - 1) :
          (\E p \in DOMAIN v : v[p] = idx)
             <=> Occurs(ToLowercase(query), ToLowercase(At(ms, idx).title))
    /\ \A p \in DOMAIN v : v[p] \in 0..(Len(ms) - 1)
    /\ query = <<>> => v = Range(Len(ms))

\* C22: a frame that called filter_movies (it processed a selection or the
\* search text was edited) leaves in filtered_indices exactly the ascending
\* list of the indices whose lower-cased title contains the lower-cased
\* search_query, every index for an empty query; after a selection is
\* processed, and while search_query is the selected title, the selected
\* index is in filtered_indices; filter_movies changes no field but
\* filtered_indices
C22_FilterIsExact ==
    [][(loads' = loads /\ ~gui_panicked') =>
        /\ (pending_selection # None \/ search_query' # search_query)
              => IsFilterOf(filtered_indices', movies', search_query')
        /\ (pending_selection # None
            /\ search_query' = At(movies', selected_movie_index').title)
              => \E p \in DOMAIN filtered_indices' :
                    filtered_indices'[p] = selected_movie_index'
        /\ \E f \in {FilterMovies(App)} :
              /\ IsFilterOf(f.filtered_indices, movies, search_query)
              /\ [f EXCEPT !.filtered_indices = filtered_indices] = App]_vars

\* C22 witness: "Ab" at index 1 was selected: the query is its title and it
\* alone is listed, "a" at index 0 is filtered out
C22_Witness ==
    /\ movies = <<MA, MC>>
    /\ selected_movie_index = 1
    /\ search_query = <<65, 98>>
    /\ filtered_indices = <<1>>
    /\ ~gui_panicked

=============================================================================
